---------------------------- MODULE Spec2Model ----------------------------
(***************************************************************************)
(* A model of tweetdb: the stream producer, the queue, the pool of tweet   *)
(* consumers and the SQLAlchemy persistence layer of                       *)
(* src/tweetdb/tweetdb.py.                                                 *)
(*                                                                         *)
(* Strings that the code inspects character by character (tweet text,      *)
(* hashtag text, language codes) are sequences of one-character strings.   *)
(***************************************************************************)
EXTENDS Integers, Sequences, FiniteSets, Bags, TLC

(***************************************************************************)
(* Characters and the str methods the code uses.                           *)
(***************************************************************************)
UpperLetters ==
    <<"A","B","C","D","E","F","G","H","I","J","K","L","M",
      "N","O","P","Q","R","S","T","U","V","W","X","Y","Z">>

LowerLetters ==
    <<"a","b","c","d","e","f","g","h","i","j","k","l","m",
      "n","o","p","q","r","s","t","u","v","w","x","y","z">>

Digits == {"0","1","2","3","4","5","6","7","8","9"}

Range(s) == {s[i] : i \in DOMAIN s}

\* str.lower() on one character
LowerChar(c) ==
    IF \E i \in DOMAIN UpperLetters : UpperLetters[i] = c
    THEN LowerLetters[CHOOSE i \in DOMAIN UpperLetters : UpperLetters[i] = c]
    ELSE c

\* str.upper() on one character
UpperChar(c) ==
    IF \E i \in DOMAIN LowerLetters : LowerLetters[i] = c
    THEN UpperLetters[CHOOSE i \in DOMAIN LowerLetters : LowerLetters[i] = c]
    ELSE c

Lower(s) == [i \in 1..Len(s) |-> LowerChar(s[i])]

Upper(s) == [i \in 1..Len(s) |-> UpperChar(s[i])]

\* the regex class \s (the model's texts hold no other white space)
IsSpace(c) == c = " "

\* s[i..] starts with p
StartsWith(s, i, p) ==
    /\ i + Len(p) - 1 <= Len(s)
    /\ SubSeq(s, i, i + Len(p) - 1) = p

\* Python's "p in s" on strings: p is a substring of s
Contains(s, p) == \E i \in 1..(Len(s) + 1) : StartsWith(s, i, p)

\* the length of the match of [^\s]+ at position i (0: no match)
RECURSIVE NonSpaceRun(_, _)
NonSpaceRun(s, i) ==
    IF i > Len(s) \/ IsSpace(s[i]) THEN 0 ELSE 1 + NonSpaceRun(s, i + 1)

\* str.strip(chars)
RECURSIVE LStrip(_, _)
LStrip(s, chars) ==
    IF s # <<>> /\ Head(s) \in chars THEN LStrip(Tail(s), chars) ELSE s

RECURSIVE RStrip(_, _)
RStrip(s, chars) ==
    IF s # <<>> /\ s[Len(s)] \in chars
    THEN RStrip(SubSeq(s, 1, Len(s) - 1), chars)
    ELSE s

Strip(s, chars) == RStrip(LStrip(s, chars), chars)

\* str.split(): the maximal runs of non-space characters
RECURSIVE Split(_, _)
Split(s, i) ==
    IF i > Len(s) THEN <<>>
    ELSE IF IsSpace(s[i]) THEN Split(s, i + 1)
    ELSE LET n == NonSpaceRun(s, i)
         IN  <<SubSeq(s, i, i + n - 1)>> \o Split(s, i + n)

(***************************************************************************)
(* tweet_words: the tokenizer                                              *)
(***************************************************************************)
Www == <<"w","w","w",".">>

Http == <<"h","t","t","p",":","/","/">>

Https == <<"h","t","t","p","s",":","/","/">>

\* the length of the match of ((www\.[^\s]+)|(https?://[^\s]+)) at i
UrlMatchLen(s, i) ==
    IF StartsWith(s, i, Www) /\ NonSpaceRun(s, i + Len(Www)) > 0
    THEN Len(Www) + NonSpaceRun(s, i + Len(Www))
    ELSE IF StartsWith(s, i, Http) /\ NonSpaceRun(s, i + Len(Http)) > 0
    THEN Len(Http) + NonSpaceRun(s, i + Len(Http))
    ELSE IF StartsWith(s, i, Https) /\ NonSpaceRun(s, i + Len(Https)) > 0
    THEN Len(Https) + NonSpaceRun(s, i + Len(Https))
    ELSE 0

\* re.sub('((www\.[^\s]+)|(https?://[^\s]+))', '', text)
RECURSIVE StripUrls(_, _)
StripUrls(s, i) ==
    IF i > Len(s) THEN <<>>
    ELSE IF UrlMatchLen(s, i) > 0 THEN StripUrls(s, i + UrlMatchLen(s, i))
    ELSE <<s[i]>> \o StripUrls(s, i + 1)

\* re.sub('@[^\s]+', '', text)
RECURSIVE StripMentions(_, _)
StripMentions(s, i) ==
    IF i > Len(s) THEN <<>>
    ELSE IF s[i] = "@" /\ NonSpaceRun(s, i + 1) > 0
    THEN StripMentions(s, i + 1 + NonSpaceRun(s, i + 1))
    ELSE <<s[i]>> \o StripMentions(s, i + 1)

\* re.sub('[\s]+', ' ', text)
RECURSIVE CollapseSpaces(_, _)
CollapseSpaces(s, i) ==
    IF i > Len(s) THEN <<>>
    ELSE IF IsSpace(s[i])
    THEN IF i > 1 /\ IsSpace(s[i - 1])
         THEN CollapseSpaces(s, i + 1)
         ELSE <<" ">> \o CollapseSpaces(s, i + 1)
    ELSE <<s[i]>> \o CollapseSpaces(s, i + 1)

\* re.sub(r'#([^\s]+)', r'\1', text)
RECURSIVE UnhashTags(_, _)
UnhashTags(s, i) ==
    IF i > Len(s) THEN <<>>
    ELSE IF s[i] = "#" /\ NonSpaceRun(s, i + 1) > 0
    THEN SubSeq(s, i + 1, i + NonSpaceRun(s, i + 1))
             \o UnhashTags(s, i + 1 + NonSpaceRun(s, i + 1))
    ELSE <<s[i]>> \o UnhashTags(s, i + 1)

TextQuotes == {"'", "\""}

WordPunctuation == {"'", "\"", "?", ",", ".", "!", ";", ":"}

\* the length below which a word is dropped
MinWordLen == 3

\* re.search(r"^[a-zA-Z][a-zA-Z0-9]*$", word) finds a match, and the word
\* is long enough
GoodWord(word) ==
    /\ word # <<>>
    /\ word[1] \in Range(LowerLetters) \cup Range(UpperLetters)
    /\ \A i \in DOMAIN word :
          word[i] \in Range(LowerLetters) \cup Range(UpperLetters) \cup Digits
    /\ ~(Len(word) < MinWordLen)

StripWord(word) == Strip(word, WordPunctuation)

tweet_words(text) ==
    LET lowered   == Lower(text)
        nourls    == StripUrls(lowered, 1)
        nomention == StripMentions(nourls, 1)
        collapsed == CollapseSpaces(nomention, 1)
        unhashed  == UnhashTags(collapsed, 1)
        trimmed   == Strip(unhashed, TextQuotes)
        words     == Split(trimmed, 1)
        stripped  == [i \in 1..Len(words) |-> StripWord(words[i])]
    IN  SelectSeq(stripped, GoodWord)


(***************************************************************************)
(* Bounds of the model                                                     *)
(***************************************************************************)
\* the number of tweet_consumer processes
NumConsumers == 2

\* how many statuses the stream delivers to a pool of several consumers
MaxBurst == 2

\* how many statuses the stream delivers to a pool of one consumer
MaxFeed == 3

\* the maxsize of the queue between on_status and the consumers
QueueSize == 2

\* the last reading of the clock dt.now()
MaxTime == 1

Consumers == 1..NumConsumers

(***************************************************************************)
(* The statuses the stream can deliver (tweepy Status objects)             *)
(***************************************************************************)
TextBarFooFoo == <<"b","a","r"," ","#","F","o","o"," ","#","f","o","o">>

TextFoo == <<"#","f","o","o">>

TextBonjour == <<"b","o","n","j","o","u","r">>

TagFoo == <<"F","o","o">>

Tagfoo == <<"f","o","o">>

LangEn == <<"e","n">>

LangFr == <<"f","r">>

Alice ==
    [id |-> 1, screen_name |-> "alice", name |-> "Alice", location |-> "Oslo",
     description |-> "bio", followers_count |-> 10, friends_count |-> 5,
     statuses_count |-> 7, created_at |-> "2010", time_zone |-> "CET",
     geo_enabled |-> FALSE, verified |-> FALSE]

\* the same account seen later, with every profile field changed
AliceLater ==
    [id |-> 1, screen_name |-> "alice2", name |-> "Alice B", location |-> "Rome",
     description |-> "bio2", followers_count |-> 11, friends_count |-> 6,
     statuses_count |-> 8, created_at |-> "2010", time_zone |-> "UTC",
     geo_enabled |-> TRUE, verified |-> TRUE]

Bob ==
    [id |-> 2, screen_name |-> "bob", name |-> "Bob", location |-> "Paris",
     description |-> "", followers_count |-> 0, friends_count |-> 0,
     statuses_count |-> 1, created_at |-> "2012", time_zone |-> "CET",
     geo_enabled |-> FALSE, verified |-> FALSE]

\* geo is <<>> for None, else the coordinates; media is <<>> when the
\* entities hold no 'media' key
StatusBarFoo ==
    [id |-> 1, author |-> Alice, text |-> TextBarFooFoo, lang |-> LangEn,
     created_at |-> "mon", source |-> "web",
     retweet_count |-> 0, favorite_count |-> 0,
     geo |-> <<59, 10>>,
     hashtags |-> <<[text |-> TagFoo], [text |-> Tagfoo]>>,
     user_mentions |-> <<[id |-> 2]>>,
     urls |-> <<[expanded_url |-> "http://a"]>>,
     media |-> <<[media_url_https |-> "https://img/1.png"]>>]

\* the same tweet observed again: the counters and the author's profile
\* differ, and the status names another client as its source
StatusBarFooAgain ==
    [StatusBarFoo EXCEPT !.retweet_count = 3, !.favorite_count = 4,
                         !.author = AliceLater, !.source = "app"]

StatusFoo ==
    [id |-> 2, author |-> Alice, text |-> TextFoo, lang |-> LangEn,
     created_at |-> "tue", source |-> "app",
     retweet_count |-> 1, favorite_count |-> 0,
     geo |-> <<>>,
     hashtags |-> <<[text |-> Tagfoo]>>,
     user_mentions |-> <<>>,
     urls |-> <<>>,
     media |-> <<>>]

StatusFr ==
    [id |-> 3, author |-> Bob, text |-> TextBonjour, lang |-> LangFr,
     created_at |-> "wed", source |-> "web",
     retweet_count |-> 0, favorite_count |-> 0,
     geo |-> <<>>,
     hashtags |-> <<>>,
     user_mentions |-> <<>>,
     urls |-> <<>>,
     media |-> <<>>]

\* The state holds a status by its name in this table
StatusOf ==
    [k \in {"barfoo", "barfoo_again", "foo", "fr"} |->
        CASE k = "barfoo"       -> StatusBarFoo
          [] k = "barfoo_again" -> StatusBarFooAgain
          [] k = "foo"          -> StatusFoo
          [] k = "fr"           -> StatusFr]

Statuses == DOMAIN StatusOf

\* the value of a consumer's local variable status before its first get()
NoStatus == "none"

(***************************************************************************)
(* The parameter file                                                      *)
(***************************************************************************)
Parmdata == [langs |-> <<LangEn>>, get_images |-> TRUE, log_interval |-> 0]

AllWord == <<"A","L","L">>

\* the language test of tweet_consumer.run
LangPasses(st, languages) ==
    \/ \E k \in DOMAIN languages : Contains(languages[k], StatusOf[st].lang)
    \/ \E k \in DOMAIN languages : Contains(Upper(languages[k]), AllWord)

(***************************************************************************)
(* The rows the SQLAlchemy classes build                                   *)
(***************************************************************************)
\* the value of a column that was never set (None / NULL)
Null == 0

User(author, t) ==
    [userid |-> author.id, username |-> author.screen_name,
     name |-> author.name, location |-> author.location,
     description |-> author.description,
     numfollowers |-> author.followers_count,
     numfriends |-> author.friends_count,
     numtweets |-> author.statuses_count,
     createdat |-> author.created_at, timezone |-> author.time_zone,
     geoloc |-> author.geo_enabled, verified |-> author.verified,
     lastupdate |-> t]

\* an update that forgets the verified flag
UserUpdateKeepsVerified(row, author, t) ==
    [row EXCEPT !.username = author.screen_name, !.name = author.name,
                !.location = author.location,
                !.description = author.description,
                !.numfollowers = author.followers_count,
                !.numfriends = author.friends_count,
                !.numtweets = author.statuses_count,
                !.timezone = author.time_zone,
                !.geoloc = author.geo_enabled,
                !.lastupdate = t]

UserUpdate(row, author, t) ==
    [row EXCEPT !.username = author.screen_name, !.name = author.name,
                !.location = author.location,
                !.description = author.description,
                !.numfollowers = author.followers_count,
                !.numfriends = author.friends_count,
                !.numtweets = author.statuses_count,
                !.timezone = author.time_zone,
                !.geoloc = author.geo_enabled,
                !.verified = author.verified,
                !.lastupdate = t]

Tweet(tweet) ==
    [tweetid |-> tweet.id, userid |-> tweet.author.id, text |-> tweet.text,
     place |-> Null, rtcount |-> tweet.retweet_count,
     fvcount |-> tweet.favorite_count, lang |-> tweet.lang,
     date |-> tweet.created_at, source |-> tweet.source]

\* an update that builds the row anew from the status
TweetUpdateAsNew(row, tweet) == Tweet(tweet)

\* Tweet.update with its second assignment lost
TweetUpdateRetweetsOnly(row, tweet) ==
    [row EXCEPT !.rtcount = tweet.retweet_count]

TweetUpdate(row, tweet) ==
    [row EXCEPT !.rtcount = tweet.retweet_count,
                !.fvcount = tweet.favorite_count]

Hashtag(tweet, hashtagid) == [tweetid |-> tweet.id, hashtagid |-> hashtagid]

HashtagLexicon(hashtagid, tag) == [hashtagid |-> hashtagid, hashtagtext |-> tag.text]

TweetLexicon(wordid, word) == [wordid |-> wordid, wordtext |-> word]

TweetWord(tweetid, wordid) == [tweetid |-> tweetid, wordid |-> wordid]

Mention(tweet, mention) ==
    [tweetid |-> tweet.id, source |-> tweet.author.id, target |-> mention.id]

URLData(tweet, url) == [tweetid |-> tweet.id, url |-> url.expanded_url]

Geotag(tweet) ==
    [tweetid |-> tweet.id, latitude |-> tweet.geo[1], longitude |-> tweet.geo[2]]

Media(tweet, media, i) ==
    [tweetid |-> tweet.id, idx |-> i, native_filename |-> media.media_url_https]

(***************************************************************************)
(* The database: committed tables, and what each session has flushed in    *)
(* its open transaction.  The child tables have no unique column besides   *)
(* their autoincrement key, so they are bags of rows.                      *)
(***************************************************************************)
EmptyTables ==
    [users |-> {}, tweets |-> {}, hashlex |-> {}, wordlex |-> {},
     hashtags |-> EmptyBag, mentions |-> EmptyBag, urls |-> EmptyBag,
     geotags |-> EmptyBag, media |-> EmptyBag, tweetwords |-> EmptyBag]

\* session.commit(): the transaction's rows become visible to every session
Commit(tables, tx) ==
    [users      |-> tables.users \cup tx.users,
     tweets     |-> tables.tweets \cup tx.tweets,
     hashlex    |-> tables.hashlex \cup tx.hashlex,
     wordlex    |-> tables.wordlex \cup tx.wordlex,
     hashtags   |-> tables.hashtags (+) tx.hashtags,
     mentions   |-> tables.mentions (+) tx.mentions,
     urls       |-> tables.urls (+) tx.urls,
     geotags    |-> tables.geotags (+) tx.geotags,
     media      |-> tables.media (+) tx.media,
     tweetwords |-> tables.tweetwords (+) tx.tweetwords]

\* session.rollback(), or the connection going away with the process
EmptySession == [new |-> {}, tx |-> EmptyTables]

\* the rows of a sequence of entities, as a bag
SeqToBag(rows) ==
    [r \in Range(rows) |-> Cardinality({i \in DOMAIN rows : rows[i] = r})]

\* tweet_words(tweet.text) of each status
Words == [k \in Statuses |-> tweet_words(StatusOf[k].text)]

VARIABLES
    parmdata,   \* the parameter file the processes were started with
    stream_len, \* how many statuses the stream delivers in this run
    now,        \* the clock read by dt.now()
    queue,      \* the queue between the producer and the consumers
    received,   \* the statuses the stream has handed to on_status, in order
    dequeued,   \* what queue.get() has returned, in order, and to whom
    producer,   \* the tweet_producer and its database_listener
    db,         \* the committed tables
    seqs,       \* the autoincrement counters of the lexicon tables
    session,    \* each consumer's SQLAlchemy session
    consumer    \* each tweet_consumer's position and fields

vars == <<parmdata, stream_len, now, queue, received, dequeued, producer, db, seqs,
          session, consumer>>

\* The tweet_producer object as the process that constructed it holds it
\* after start(): run() executes in the child, on the child's copy, so the
\* parent's copy keeps active = True and never gets the attribute stream.
\* close is where the parent's call of close() stands.
ParentCopy == [active |-> TRUE, has_stream |-> FALSE, close |-> "idle"]

InitPipeline ==
    /\ parmdata = Parmdata
    /\ now = 0
    /\ queue = <<>>
    /\ received = <<>>
    /\ dequeued = <<>>
    /\ producer = [pc |-> "connect", n_count |-> 0, last_time |-> 0,
                   active |-> TRUE, parent |-> ParentCopy]
    /\ db = EmptyTables
    /\ seqs = [hashlex |-> 0, wordlex |-> 0]
    /\ session = [w \in Consumers |-> EmptySession]
    /\ consumer = [w \in Consumers |->
                     [pc |-> "get", status |-> NoStatus, idx |-> 0,
                      lexid |-> Null, n_tweets |-> 0, n_dupes |-> 0,
                      last_time |-> 0]]

Init ==
    /\ stream_len = MaxBurst
    /\ InitPipeline

\* a pool of one consumer: the others are never started
InitSolo ==
    /\ stream_len = MaxFeed
    /\ parmdata = Parmdata
    /\ now = 0
    /\ queue = <<>>
    /\ received = <<>>
    /\ dequeued = <<>>
    /\ producer = [pc |-> "connect", n_count |-> 0, last_time |-> 0,
                   active |-> TRUE, parent |-> ParentCopy]
    /\ db = EmptyTables
    /\ seqs = [hashlex |-> 0, wordlex |-> 0]
    /\ session = [w \in Consumers |-> EmptySession]
    /\ consumer = [w \in Consumers |->
                     [pc |-> IF w = 1 THEN "get" ELSE "unstarted",
                      status |-> NoStatus, idx |-> 0,
                      lexid |-> Null, n_tweets |-> 0, n_dupes |-> 0,
                      last_time |-> 0]]

(***************************************************************************)
(* Time                                                                    *)
(***************************************************************************)
Tick ==
    /\ now < MaxTime
    /\ now' = now + 1
    /\ UNCHANGED <<parmdata, stream_len, queue, received, dequeued, producer, db, seqs,
                   session, consumer>>

(***************************************************************************)
(* tweet_producer and database_listener                                    *)
(***************************************************************************)
\* database_listener.status_update
ListenerStatusUpdate(l) ==
    IF now - l.last_time > parmdata.log_interval
    THEN [l EXCEPT !.last_time = now, !.n_count = 0]
    ELSE l

\* tweet_producer.run: the test of the while loop, then a new listener and
\* a new stream
Connect ==
    /\ producer.pc = "connect"
    /\ producer' = IF producer.active
                   THEN [producer EXCEPT !.pc = "stream", !.n_count = 0,
                                         !.last_time = now]
                   ELSE [producer EXCEPT !.pc = "exited"]
    /\ UNCHANGED <<parmdata, stream_len, now, queue, received, dequeued, db, seqs,
                   session, consumer>>

\* the stream calls on_status with the next status
Receive ==
    /\ producer.pc = "stream"
    /\ Len(received) < stream_len
    /\ \E st \in Statuses : received' = Append(received, st)
    /\ producer' = [producer EXCEPT !.pc = "put"]
    /\ UNCHANGED <<parmdata, stream_len, now, queue, dequeued, db, seqs, session, consumer>>

\* a queue that puts the new item in front of the waiting ones
QueuePutFront(q, st) == <<st>> \o q

\* the queue holds its capacity of items; the pipeline's caller constructs it
\* with that capacity
QueueFull(q) == Len(q) >= QueueSize

\* a put that never waits and never fails, as put on an unbounded queue
PutNeverWaits(q) == FALSE

\* queue.put(status) with block and timeout left at their defaults: the
\* caller waits while the queue is full
PutWaits(q) == QueueFull(q)

\* queue.put(status): the item joins the queue behind the waiting ones
QueuePut(q, st) == Append(q, st)

\* database_listener.on_status
OnStatus ==
    /\ producer.pc = "put"
    /\ ~PutWaits(queue)
    /\ queue' = QueuePut(queue, received[Len(received)])
    /\ producer' = ListenerStatusUpdate(
                      [producer EXCEPT !.pc = "stream",
                                       !.n_count = producer.n_count + 1])
    /\ UNCHANGED <<parmdata, stream_len, now, received, dequeued, db, seqs, session,
                   consumer>>

\* a run() whose handlers let the exception through
StreamErrorUncaught ==
    /\ producer.pc = "stream"
    /\ producer' = [producer EXCEPT !.pc = "exited"]
    /\ UNCHANGED <<parmdata, stream_len, now, queue, received, dequeued, db, seqs,
                   session, consumer>>

\* tweet_producer.close, called by the process that started the producer:
\* self.stream.disconnect() raises AttributeError on a copy without the
\* attribute stream; with it, the stream is told to stop, active is set to
\* False on this copy and join() waits for the child to exit
Close ==
    /\ producer.parent.close = "idle"
    /\ producer.pc # "terminated"
    /\ producer' = IF producer.parent.has_stream
                   THEN [producer EXCEPT !.parent.active = FALSE,
                                         !.parent.close = "join"]
                   ELSE [producer EXCEPT !.parent.close = "raised"]
    /\ UNCHANGED <<parmdata, stream_len, now, queue, received, dequeued, db, seqs,
                   session, consumer>>

\* The process that started the pipeline exits: its daemonic children, the
\* producer and the consumers, are terminated where they stand, and the
\* storage rolls back the transactions of the lost connections
ParentExit ==
    /\ producer.pc # "terminated"
    /\ producer' = [producer EXCEPT !.pc = "terminated"]
    /\ consumer' = [w \in Consumers |->
                      IF consumer[w].pc \in {"dead", "unstarted"}
                      THEN consumer[w]
                      ELSE [consumer[w] EXCEPT !.pc = "terminated"]]
    /\ session' = [w \in Consumers |-> EmptySession]
    /\ UNCHANGED <<parmdata, stream_len, now, queue, received, dequeued, db, seqs>>

\* stream.sample() raises: run() goes round its loop and connects again
StreamError ==
    /\ producer.pc = "stream"
    /\ producer' = [producer EXCEPT !.pc = "connect"]
    /\ UNCHANGED <<parmdata, stream_len, now, queue, received, dequeued, db, seqs,
                   session, consumer>>

(***************************************************************************)
(* tweet_consumer                                                          *)
(***************************************************************************)
\* a status_update that reports as soon as the interval is reached
StatusUpdateAtInterval(c) ==
    IF now - c.last_time >= parmdata.log_interval
    THEN [c EXCEPT !.last_time = now, !.n_tweets = 0, !.n_dupes = 0]
    ELSE c

\* tweet_consumer.status_update
StatusUpdate(c) ==
    IF now - c.last_time > parmdata.log_interval
    THEN [c EXCEPT !.last_time = now, !.n_tweets = 0, !.n_dupes = 0]
    ELSE c

\* the consumers that are in the middle of an item
Busy ==
    {w \in Consumers : consumer[w].pc \notin {"get", "dead", "terminated", "unstarted"}}

\* a consumer that leaves the language filter to the stream
GetUnfiltered(w) ==
    /\ consumer[w].pc = "get"
    /\ queue # <<>>
    /\ queue' = Tail(queue)
    /\ dequeued' = Append(dequeued,
                          [consumer |-> w, status |-> Head(queue), busy |-> Busy])
    /\ consumer' = [consumer EXCEPT ![w] =
          [@ EXCEPT !.status = Head(queue), !.pc = "add_user"]]
    /\ UNCHANGED <<parmdata, stream_len, now, received, producer, db, seqs, session>>

\* run: status = self.queue.get(), the language test, and for a status
\* that fails it the status_update that ends the iteration
Get(w) ==
    /\ consumer[w].pc = "get"
    /\ queue # <<>>
    /\ queue' = Tail(queue)
    /\ dequeued' = Append(dequeued,
                          [consumer |-> w, status |-> Head(queue), busy |-> Busy])
    /\ consumer' = [consumer EXCEPT ![w] =
          IF LangPasses(Head(queue), parmdata.langs)
          THEN [@ EXCEPT !.status = Head(queue), !.pc = "add_user"]
          ELSE StatusUpdate([@ EXCEPT !.status = Head(queue)])]
    /\ UNCHANGED <<parmdata, stream_len, now, received, producer, db, seqs, session>>

\* add_user: session.query(User).filter(User.userid == user.id).count() == 0
AddUserQuery(w) ==
    /\ consumer[w].pc = "add_user"
    /\ consumer' = [consumer EXCEPT ![w].pc =
          IF \E u \in db.users : u.userid = StatusOf[consumer[w].status].author.id
          THEN "user_update"
          ELSE "user_insert"]
    /\ UNCHANGED <<parmdata, stream_len, now, queue, received, dequeued, producer, db,
                   seqs, session>>

\* add_user, the first branch: session.add(User(user)); session.commit().
\* The INSERT breaks the primary key when the row has been committed since
\* the count.
AddUserInsert(w) ==
    /\ consumer[w].pc = "user_insert"
    /\ IF \E u \in db.users : u.userid = StatusOf[consumer[w].status].author.id
       THEN /\ consumer' = [consumer EXCEPT ![w].pc = "integrity_error"]
            /\ UNCHANGED db
       ELSE /\ db' = [db EXCEPT !.users =
                          @ \cup {User(StatusOf[consumer[w].status].author, now)}]
            /\ consumer' = [consumer EXCEPT ![w].pc = "add_tweet"]
    /\ UNCHANGED <<parmdata, stream_len, now, queue, received, dequeued, producer, seqs,
                   session>>

\* add_user, the second branch: .one(), userobj.update(user), commit
AddUserUpdate(w) ==
    /\ consumer[w].pc = "user_update"
    /\ LET author == StatusOf[consumer[w].status].author
           old    == CHOOSE u \in db.users : u.userid = author.id
       IN  db' = [db EXCEPT !.users =
                      (@ \ {old}) \cup {UserUpdate(old, author, now)}]
    /\ consumer' = [consumer EXCEPT ![w].pc = "add_tweet"]
    /\ UNCHANGED <<parmdata, stream_len, now, queue, received, dequeued, producer, seqs,
                   session>>

\* add_tweet: the count that chooses the branch; in the first branch
\* tweetobj = Tweet(tweet); session.add(tweetobj)
AddTweetQuery(w) ==
    /\ consumer[w].pc = "add_tweet"
    /\ IF \E t \in db.tweets : t.tweetid = StatusOf[consumer[w].status].id
       THEN /\ consumer' = [consumer EXCEPT ![w].pc = "tweet_update"]
            /\ UNCHANGED session
       ELSE /\ consumer' = [consumer EXCEPT ![w].pc = "hashtags", ![w].idx = 1]
            /\ session' = [session EXCEPT ![w].new = {Tweet(StatusOf[consumer[w].status])}]
    /\ UNCHANGED <<parmdata, stream_len, now, queue, received, dequeued, producer, db, seqs>>

\* a Tweet table whose tweetid is not unique
TweetConflictNever(w) == FALSE

\* The flush of the pending Tweet row finds its primary key committed
TweetConflict(w) ==
    \E r \in session[w].new : \E t \in db.tweets : t.tweetid = r.tweetid

\* The flush of the pending Tweet row waits for another transaction that
\* has inserted the same primary key and has not ended
TweetBlocked(w) ==
    \E r \in session[w].new : \E w2 \in Consumers \ {w} :
        \E t \in session[w2].tx.tweets : t.tweetid = r.tweetid

\* a flush that leaves out the pending Tweet row
FlushedWithoutTweet(s) == [new |-> {}, tx |-> s.tx]

\* the session after a flush of the pending Tweet row
Flushed(s) == [new |-> {}, tx |-> [s.tx EXCEPT !.tweets = @ \cup s.new]]

\* session.query(HashtagLexicon).filter(HashtagLexicon.hashtagtext == text)
\* in a session whose transaction is tx: the committed rows and its own
HashtagLexiconQuery(tx, text) ==
    {l \in db.hashlex \cup tx.hashlex : l.hashtagtext = text}

\* the query of a session that does not see what it has flushed itself
TweetLexiconQueryCommitted(tx, word) ==
    {l \in db.wordlex : l.wordtext = word}

\* session.query(TweetLexicon).filter(TweetLexicon.wordtext == word)
TweetLexiconQuery(tx, word) ==
    {l \in db.wordlex \cup tx.wordlex : l.wordtext = word}

\* Hashtag.__init__: the lexicon query (which autoflushes the session); when
\* the row is found, the Hashtag row is built and merged
HashtagLookup(w) ==
    /\ consumer[w].pc = "hashtags"
    /\ consumer[w].idx <= Len(StatusOf[consumer[w].status].hashtags)
    /\ IF TweetConflict(w)
       THEN /\ consumer' = [consumer EXCEPT ![w].pc = "integrity_error"]
            /\ UNCHANGED session
       ELSE /\ ~TweetBlocked(w)
            /\ LET st    == StatusOf[consumer[w].status]
                   tag   == st.hashtags[consumer[w].idx]
                   s     == Flushed(session[w])
                   found == HashtagLexiconQuery(s.tx, tag.text)
               IN  IF found = {}
                   THEN /\ consumer' = [consumer EXCEPT ![w].pc = "hashtag_insert"]
                        /\ session' = [session EXCEPT ![w] = s]
                   ELSE LET lexobj == CHOOSE l \in found : TRUE
                        IN  /\ consumer' = [consumer EXCEPT
                                   ![w].idx = @ + 1,
                                   ![w].lexid = lexobj.hashtagid]
                            /\ session' = [session EXCEPT ![w] =
                                   [s EXCEPT !.tx.hashtags = @ (+)
                                       SetToBag({Hashtag(st, lexobj.hashtagid)})]]
    /\ UNCHANGED <<parmdata, stream_len, now, queue, received, dequeued, producer, db, seqs>>

\* Hashtag.__init__, NoResultFound: lexobj = session.merge(HashtagLexicon(tag));
\* session.flush(); then the Hashtag row is built and merged.  The INSERT
\* waits for a transaction that has inserted the same text, and breaks the
\* unique index when the text is committed.
HashtagLexInsert(w) ==
    /\ consumer[w].pc = "hashtag_insert"
    /\ LET st  == StatusOf[consumer[w].status]
           tag == st.hashtags[consumer[w].idx]
       IN  IF \E l \in db.hashlex \cup session[w].tx.hashlex : l.hashtagtext = tag.text
           THEN /\ consumer' = [consumer EXCEPT ![w].pc = "integrity_error"]
                /\ UNCHANGED <<session, seqs>>
           ELSE /\ \A w2 \in Consumers \ {w} :
                       \A l \in session[w2].tx.hashlex : l.hashtagtext # tag.text
                /\ seqs' = [seqs EXCEPT !.hashlex = @ + 1]
                /\ session' = [session EXCEPT
                       ![w].tx.hashlex = @ \cup {HashtagLexicon(seqs'.hashlex, tag)},
                       ![w].tx.hashtags = @ (+) SetToBag({Hashtag(st, seqs'.hashlex)})]
                /\ consumer' = [consumer EXCEPT
                       ![w].pc = "hashtags", ![w].idx = @ + 1,
                       ![w].lexid = seqs'.hashlex]
    /\ UNCHANGED <<parmdata, stream_len, now, queue, received, dequeued, producer, db>>

\* add_tweet: the loops over user_mentions and urls, the geotag, and the
\* test that opens the loop over media
AddEntities(w) ==
    /\ consumer[w].pc = "hashtags"
    /\ consumer[w].idx > Len(StatusOf[consumer[w].status].hashtags)
    /\ LET st == StatusOf[consumer[w].status]
       IN  /\ session' = [session EXCEPT
                  ![w].tx.mentions = @ (+) SeqToBag(
                      [i \in DOMAIN st.user_mentions |->
                          Mention(st, st.user_mentions[i])]),
                  ![w].tx.urls = @ (+) SeqToBag(
                      [i \in DOMAIN st.urls |-> URLData(st, st.urls[i])]),
                  ![w].tx.geotags = @ (+)
                      (IF st.geo # <<>> THEN SetToBag({Geotag(st)}) ELSE EmptyBag)]
           /\ consumer' = [consumer EXCEPT
                  ![w].pc = IF parmdata.get_images /\ st.media # <<>>
                            THEN "media" ELSE "commit",
                  ![w].idx = 1]
    /\ UNCHANGED <<parmdata, stream_len, now, queue, received, dequeued, producer, db, seqs>>

\* add_tweet: Media(tweet, media, idx, ...) fetches the image and the row
\* is merged
MediaFetched(w) ==
    /\ consumer[w].pc = "media"
    /\ LET st == StatusOf[consumer[w].status]
           i  == consumer[w].idx
       IN  /\ session' = [session EXCEPT ![w].tx.media = @ (+)
                  SetToBag({Media(st, st.media[i], i)})]
           /\ consumer' = [consumer EXCEPT
                  ![w].idx = i + 1,
                  ![w].pc = IF i + 1 > Len(st.media) THEN "commit" ELSE "media"]
    /\ UNCHANGED <<parmdata, stream_len, now, queue, received, dequeued, producer, db, seqs>>

\* run: "except: raise".  An exception that is no IntegrityError leaves
\* run(), the process ends and its connection's transaction is gone.
Raise(w) ==
    /\ consumer' = [consumer EXCEPT ![w].pc = "dead"]
    /\ session' = [session EXCEPT ![w] = EmptySession]

\* Media.__init__: https.request raises
MediaFetchFails(w) ==
    /\ consumer[w].pc = "media"
    /\ Raise(w)
    /\ UNCHANGED <<parmdata, stream_len, now, queue, received, dequeued, producer, db, seqs>>

\* add_tweet: the first session.commit()
TweetCommit(w) ==
    /\ consumer[w].pc = "commit"
    /\ IF TweetConflict(w)
       THEN /\ consumer' = [consumer EXCEPT ![w].pc = "integrity_error"]
            /\ UNCHANGED <<session, db>>
       ELSE /\ ~TweetBlocked(w)
            /\ db' = Commit(db, Flushed(session[w]).tx)
            /\ session' = [session EXCEPT ![w] = EmptySession]
            /\ consumer' = [consumer EXCEPT ![w].pc = "words", ![w].idx = 1]
    /\ UNCHANGED <<parmdata, stream_len, now, queue, received, dequeued, producer, seqs>>

\* TweetWord.__init__: the lexicon query; when the row is found the
\* TweetWord row is built and merged
WordLookup(w) ==
    /\ consumer[w].pc = "words"
    /\ LET st    == StatusOf[consumer[w].status]
           words == Words[consumer[w].status]
       IN  /\ consumer[w].idx <= Len(words)
           /\ LET found == TweetLexiconQuery(session[w].tx,
                                                 words[consumer[w].idx])
              IN  IF found = {}
                  THEN /\ consumer' = [consumer EXCEPT ![w].pc = "word_insert"]
                       /\ UNCHANGED session
                  ELSE LET wordobj == CHOOSE l \in found : TRUE
                       IN  /\ consumer' = [consumer EXCEPT
                                  ![w].idx = @ + 1,
                                  ![w].lexid = wordobj.wordid]
                           /\ session' = [session EXCEPT
                                  ![w].tx.tweetwords = @ (+)
                                      SetToBag({TweetWord(st.id, wordobj.wordid)})]
    /\ UNCHANGED <<parmdata, stream_len, now, queue, received, dequeued, producer, db, seqs>>

\* TweetWord.__init__, NoResultFound: wordobj = session.merge(TweetLexicon(word));
\* session.flush().  On IntegrityError: session.rollback(), and jobdone is
\* set all the same, so the row is built from the wordobj whose INSERT
\* failed: its wordid was never set.
WordLexInsert(w) ==
    /\ consumer[w].pc = "word_insert"
    /\ LET st   == StatusOf[consumer[w].status]
           word == Words[consumer[w].status][consumer[w].idx]
       IN  IF \E l \in db.wordlex \cup session[w].tx.wordlex : l.wordtext = word
           THEN /\ session' = [session EXCEPT ![w] =
                       [EmptySession EXCEPT !.tx.tweetwords =
                           SetToBag({TweetWord(st.id, Null)})]]
                /\ consumer' = [consumer EXCEPT
                       ![w].pc = "words", ![w].idx = @ + 1, ![w].lexid = Null]
                /\ UNCHANGED seqs
           ELSE /\ \A w2 \in Consumers \ {w} :
                       \A l \in session[w2].tx.wordlex : l.wordtext # word
                /\ seqs' = [seqs EXCEPT !.wordlex = @ + 1]
                /\ session' = [session EXCEPT
                       ![w].tx.wordlex = @ \cup {TweetLexicon(seqs'.wordlex, word)},
                       ![w].tx.tweetwords = @ (+)
                           SetToBag({TweetWord(st.id, seqs'.wordlex)})]
                /\ consumer' = [consumer EXCEPT
                       ![w].pc = "words", ![w].idx = @ + 1,
                       ![w].lexid = seqs'.wordlex]
    /\ UNCHANGED <<parmdata, stream_len, now, queue, received, dequeued, producer, db>>

\* add_tweet: the second session.commit(); run: n_tweets += 1, status_update
WordsCommit(w) ==
    /\ consumer[w].pc = "words"
    /\ consumer[w].idx > Len(Words[consumer[w].status])
    /\ db' = Commit(db, session[w].tx)
    /\ session' = [session EXCEPT ![w] = EmptySession]
    /\ consumer' = [consumer EXCEPT ![w] =
          StatusUpdate([@ EXCEPT !.pc = "get", !.n_tweets = @ + 1])]
    /\ UNCHANGED <<parmdata, stream_len, now, queue, received, dequeued, producer, seqs>>

\* add_tweet, the second branch: .one(), tweetobj.update(tweet), commit;
\* run: n_tweets += 1, status_update
AddTweetUpdate(w) ==
    /\ consumer[w].pc = "tweet_update"
    /\ LET st  == StatusOf[consumer[w].status]
           old == CHOOSE t \in db.tweets : t.tweetid = st.id
       IN  db' = [db EXCEPT !.tweets = (@ \ {old}) \cup {TweetUpdate(old, st)}]
    /\ consumer' = [consumer EXCEPT ![w] =
          StatusUpdate([@ EXCEPT !.pc = "get", !.n_tweets = @ + 1])]
    /\ UNCHANGED <<parmdata, stream_len, now, queue, received, dequeued, producer, seqs,
                   session>>

\* run: except IntegrityError: n_dupes += 1; session.rollback(); then
\* status_update
OnIntegrityError(w) ==
    /\ consumer[w].pc = "integrity_error"
    /\ session' = [session EXCEPT ![w] = EmptySession]
    /\ consumer' = [consumer EXCEPT ![w] =
          StatusUpdate([@ EXCEPT !.pc = "get", !.n_dupes = @ + 1])]
    /\ UNCHANGED <<parmdata, stream_len, now, queue, received, dequeued, producer, db, seqs>>

\* a statement of add_user or add_tweet fails with an error of the storage
\* that is no IntegrityError (the connection is lost, a deadlock is broken)
StorageError(w) ==
    /\ consumer[w].pc \notin {"get", "dead", "terminated", "unstarted",
                               "integrity_error", "media"}
    /\ Raise(w)
    /\ UNCHANGED <<parmdata, stream_len, now, queue, received, dequeued, producer, db, seqs>>

\* one step of tweet_consumer w when the storage and the network work
ConsumerStep(w) ==
    \/ Get(w)
    \/ AddUserQuery(w)
    \/ AddUserInsert(w)
    \/ AddUserUpdate(w)
    \/ AddTweetQuery(w)
    \/ HashtagLookup(w)
    \/ HashtagLexInsert(w)
    \/ AddEntities(w)
    \/ MediaFetched(w)
    \/ TweetCommit(w)
    \/ WordLookup(w)
    \/ WordLexInsert(w)
    \/ WordsCommit(w)
    \/ AddTweetUpdate(w)
    \/ OnIntegrityError(w)

\* one step of the producer while the stream stays up
ProducerStep ==
    \/ Connect
    \/ Receive
    \/ OnStatus

\* what the environment does to the processes: the stream breaks, the
\* storage fails, an image cannot be fetched
Fault ==
    \/ StreamError
    \/ \E w \in Consumers : StorageError(w)
    \/ \E w \in Consumers : MediaFetchFails(w)

Next ==
    \/ ProducerStep
    \/ \E w \in Consumers : ConsumerStep(w)

\* The pipeline while nothing fails and within one logging interval
Spec == Init /\ [][Next]_vars

\* The pipeline with a pool of one consumer
\* (no INSERT of a lone consumer breaks a unique index, and the handler of
\* IntegrityError is never entered)
NextSolo ==
    \/ ProducerStep
    \/ Get(1)
    \/ AddUserQuery(1)
    \/ AddUserInsert(1)
    \/ AddUserUpdate(1)
    \/ AddTweetQuery(1)
    \/ HashtagLookup(1)
    \/ HashtagLexInsert(1)
    \/ AddEntities(1)
    \/ MediaFetched(1)
    \/ TweetCommit(1)
    \/ WordLookup(1)
    \/ WordLexInsert(1)
    \/ WordsCommit(1)
    \/ AddTweetUpdate(1)

SpecSolo == InitSolo /\ [][NextSolo]_vars

\* The pipeline with a pool of one consumer and the failures of the storage
\* and the network
NextSoloFaults ==
    \/ NextSolo
    \/ StorageError(1)
    \/ MediaFetchFails(1)

SpecSoloFaults == InitSolo /\ [][NextSoloFaults]_vars

\* the lists that the settings file may give as parmdata['settings']['langs']
LangEng == <<"e","n","g">>

LangAll == <<"a","l","l">>

LangsSettings == {<<LangEn>>, <<LangEng>>, <<LangFr, LangAll>>}

\* a pool of one consumer, started with any of these settings
InitLangs ==
    /\ stream_len = MaxFeed
    /\ parmdata \in {[Parmdata EXCEPT !.langs = l] : l \in LangsSettings}
    /\ now = 0
    /\ queue = <<>>
    /\ received = <<>>
    /\ dequeued = <<>>
    /\ producer = [pc |-> "connect", n_count |-> 0, last_time |-> 0,
                   active |-> TRUE, parent |-> ParentCopy]
    /\ db = EmptyTables
    /\ seqs = [hashlex |-> 0, wordlex |-> 0]
    /\ session = [w \in Consumers |-> EmptySession]
    /\ consumer = [w \in Consumers |->
                     [pc |-> IF w = 1 THEN "get" ELSE "unstarted",
                      status |-> NoStatus, idx |-> 0,
                      lexid |-> Null, n_tweets |-> 0, n_dupes |-> 0,
                      last_time |-> 0]]

SpecLangs == InitLangs /\ [][NextSolo]_vars

\* The pipeline with the failures of the stream, the storage and the network
NextFaults ==
    \/ Next
    \/ Fault

SpecFaults == Init /\ [][NextFaults]_vars

\* The pipeline with the passing of time
NextClock ==
    \/ Next
    \/ Tick

SpecClock == Init /\ [][NextClock]_vars

\* The pipeline with a pool of one consumer, an unreliable stream, and the
\* process that started it calling close() and exiting
NextShutdown ==
    \/ NextSolo
    \/ StreamError
    \/ Close
    \/ ParentExit

SpecShutdown == InitSolo /\ [][NextShutdown]_vars

(***************************************************************************)
(* The single-process variant (src/src/TweetDB.py): the listener of        *)
(* stream_to_db stores each status itself, in on_status.  producer holds   *)
(* the listener and its place in on_status; no queue, no consumer.         *)
(***************************************************************************)
\* stream_to_db: languages = ['en','unk']
VariantLanguages == <<LangEn, <<"u","n","k">>>>

\* database_listener.update_time, in seconds
update_time == 10

\* on_status: any(status.lang in s for s in self.languages)
VariantLangPasses(st) ==
    \E k \in DOMAIN VariantLanguages :
        Contains(VariantLanguages[k], StatusOf[st].lang)

\* the rows of the variant's classes
VariantUser(author, t) ==
    [userid |-> author.id, username |-> author.name,
     location |-> author.location, description |-> author.description,
     numfollowers |-> author.followers_count,
     numfriends |-> author.friends_count,
     numtweets |-> author.statuses_count,
     geoloc |-> author.geo_enabled, lastupdate |-> t]

VariantTweet(tweet) ==
    [tweetid |-> tweet.id, userid |-> tweet.author.id, text |-> tweet.text,
     rtcount |-> tweet.retweet_count, fvcount |-> tweet.favorite_count,
     lang |-> tweet.lang, date |-> tweet.created_at, source |-> tweet.source]

VariantHashtag(tweet, tag) == [tweetid |-> tweet.id, tag |-> tag.text]

VariantMention(tweet, mention) ==
    [tweetid |-> tweet.id, source |-> tweet.author.id, target |-> mention.id]

VariantURLData(tweet, url) == [tweetid |-> tweet.id, url |-> url.expanded_url]

VariantGeotag(tweet) ==
    [tweetid |-> tweet.id, latitude |-> tweet.geo[1], longitude |-> tweet.geo[2]]

\* session.merge(obj); session.commit() on a table whose primary key is
\* tweetid: the row of that tweetid, when there is one, is loaded and
\* overwritten with the object's columns; else the object is inserted
MergeByTweetId(table, row) ==
    SetToBag({r \in DOMAIN table : r.tweetid # row.tweetid} \cup {row})

\* database_listener.status_update of the variant
VariantStatusUpdate(l) ==
    IF now - l.last_time > update_time
    THEN [l EXCEPT !.last_time = now, !.n_total = 0, !.n_valid = 0]
    ELSE l

InitVariant ==
    /\ stream_len = MaxFeed
    /\ parmdata = Parmdata
    /\ now = 0
    /\ queue = <<>>
    /\ received = <<>>
    /\ dequeued = <<>>
    /\ producer = [pc |-> "stream", n_total |-> 0, n_valid |-> 0,
                   last_time |-> 0, status |-> NoStatus, idx |-> 0]
    /\ db = EmptyTables
    /\ seqs = [hashlex |-> 0, wordlex |-> 0]
    /\ session = [w \in Consumers |-> EmptySession]
    /\ consumer = [w \in Consumers |->
                     [pc |-> "unstarted", status |-> NoStatus, idx |-> 0,
                      lexid |-> Null, n_tweets |-> 0, n_dupes |-> 0,
                      last_time |-> 0]]

\* on_status up to the language test and, for a status that fails it, to
\* its end
VariantOnStatus ==
    /\ producer.pc = "stream"
    /\ Len(received) < stream_len
    /\ \E st \in Statuses :
          /\ received' = Append(received, st)
          /\ producer' =
                IF VariantLangPasses(st)
                THEN [producer EXCEPT !.n_total = @ + 1, !.n_valid = @ + 1,
                                      !.status = st, !.pc = "add_user"]
                ELSE VariantStatusUpdate(
                        [producer EXCEPT !.n_total = @ + 1, !.status = st])
    /\ UNCHANGED <<parmdata, stream_len, now, queue, dequeued, db, seqs, session,
                   consumer>>

\* add_user of the variant
VariantAddUser ==
    /\ producer.pc = "add_user"
    /\ LET author == StatusOf[producer.status].author
           rows   == {u \in db.users : u.userid = author.id}
       IN  db' = [db EXCEPT !.users =
                    IF rows = {}
                    THEN @ \cup {VariantUser(author, now)}
                    ELSE (@ \ rows) \cup
                         {[u EXCEPT !.username = author.name,
                                    !.location = author.location,
                                    !.description = author.description,
                                    !.numfollowers = author.followers_count,
                                    !.numfriends = author.friends_count,
                                    !.numtweets = author.statuses_count,
                                    !.geoloc = author.geo_enabled,
                                    !.lastupdate = now] : u \in rows}]
    /\ producer' = [producer EXCEPT !.pc = "add_tweet"]
    /\ UNCHANGED <<parmdata, stream_len, now, queue, received, dequeued, seqs, session,
                   consumer>>

\* add_tweet of the variant: the count, and then the Tweet row added and
\* committed, or the else branch and the end of on_status
VariantAddTweet ==
    /\ producer.pc = "add_tweet"
    /\ LET st   == StatusOf[producer.status]
           rows == {t \in db.tweets : t.tweetid = st.id}
       IN  IF rows = {}
           THEN /\ db' = [db EXCEPT !.tweets = @ \cup {VariantTweet(st)}]
                /\ producer' = [producer EXCEPT !.pc = "hashtags", !.idx = 1]
           ELSE /\ db' = [db EXCEPT !.tweets = (@ \ rows) \cup
                            {[t EXCEPT !.rtcount = st.retweet_count,
                                       !.fvcount = st.favorite_count] : t \in rows}]
                /\ producer' = VariantStatusUpdate([producer EXCEPT !.pc = "stream"])
    /\ UNCHANGED <<parmdata, stream_len, now, queue, received, dequeued, seqs, session,
                   consumer>>

\* add_tweet of the variant: one round of the loop over the hashtags
VariantMergeHashtag ==
    /\ producer.pc = "hashtags"
    /\ LET st == StatusOf[producer.status]
           i  == producer.idx
       IN  IF i > Len(st.hashtags)
           THEN /\ producer' = [producer EXCEPT !.pc = "mentions", !.idx = 1]
                /\ UNCHANGED db
           ELSE /\ db' = [db EXCEPT !.hashtags =
                            MergeByTweetId(@, VariantHashtag(st, st.hashtags[i]))]
                /\ producer' = [producer EXCEPT !.idx = i + 1]
    /\ UNCHANGED <<parmdata, stream_len, now, queue, received, dequeued, seqs, session,
                   consumer>>

\* one round of the loop over the user_mentions
VariantMergeMention ==
    /\ producer.pc = "mentions"
    /\ LET st == StatusOf[producer.status]
           i  == producer.idx
       IN  IF i > Len(st.user_mentions)
           THEN /\ producer' = [producer EXCEPT !.pc = "urls", !.idx = 1]
                /\ UNCHANGED db
           ELSE /\ db' = [db EXCEPT !.mentions =
                            MergeByTweetId(@, VariantMention(st, st.user_mentions[i]))]
                /\ producer' = [producer EXCEPT !.idx = i + 1]
    /\ UNCHANGED <<parmdata, stream_len, now, queue, received, dequeued, seqs, session,
                   consumer>>

\* one round of the loop over the urls
VariantMergeUrl ==
    /\ producer.pc = "urls"
    /\ LET st == StatusOf[producer.status]
           i  == producer.idx
       IN  IF i > Len(st.urls)
           THEN /\ producer' = [producer EXCEPT !.pc = "geotag", !.idx = 0]
                /\ UNCHANGED db
           ELSE /\ db' = [db EXCEPT !.urls =
                            MergeByTweetId(@, VariantURLData(st, st.urls[i]))]
                /\ producer' = [producer EXCEPT !.idx = i + 1]
    /\ UNCHANGED <<parmdata, stream_len, now, queue, received, dequeued, seqs, session,
                   consumer>>

\* the Geotag of a status with geo data, and the end of on_status
VariantMergeGeotag ==
    /\ producer.pc = "geotag"
    /\ LET st == StatusOf[producer.status]
       IN  db' = IF st.geo # <<>>
                 THEN [db EXCEPT !.geotags = MergeByTweetId(@, VariantGeotag(st))]
                 ELSE db
    /\ producer' = VariantStatusUpdate([producer EXCEPT !.pc = "stream"])
    /\ UNCHANGED <<parmdata, stream_len, now, queue, received, dequeued, seqs, session,
                   consumer>>

NextVariant ==
    \/ VariantOnStatus
    \/ VariantAddUser
    \/ VariantAddTweet
    \/ VariantMergeHashtag
    \/ VariantMergeMention
    \/ VariantMergeUrl
    \/ VariantMergeGeotag

SpecVariant == InitVariant /\ [][NextVariant]_vars

(***************************************************************************)
(* Properties                                                              *)
(***************************************************************************)
\* the number of copies of the rows of a child table that belong to a tweet
RowsOfTweet(bag, tweetid) ==
    LET rows == {r \in BagToSet(bag) : r.tweetid = tweetid}
    IN  BagCardinality([r \in rows |-> bag[r]])

\* C1: a second add_tweet of a tweet whose row is stored takes the update
\* branch, and that branch writes the status's retweet and favorite counts
\* into the Tweet row and changes nothing else in the storage: no other
\* column of the row, no other row, no child row.
C1_ReobservationUpdatesOnlyCounters ==
    [][\A w \in Consumers :
        /\ ( /\ consumer[w].pc = "add_tweet"
             /\ consumer'[w].pc \notin {"add_tweet", "dead"}
             /\ \E t \in db.tweets :
                    t.tweetid = StatusOf[consumer[w].status].id )
           => /\ consumer'[w].pc = "tweet_update"
              /\ db' = db
              /\ session'[w] = EmptySession
        /\ ( /\ consumer[w].pc = "tweet_update"
             /\ consumer'[w].pc = "get" )
           => LET st == StatusOf[consumer[w].status]
              IN  \E old \in db.tweets :
                    /\ old.tweetid = st.id
                    /\ db' = [db EXCEPT !.tweets = (@ \ {old}) \cup
                                {[old EXCEPT !.rtcount = st.retweet_count,
                                             !.fvcount = st.favorite_count]}]
                    /\ session'[w] = EmptySession
      ]_vars

\* C1 witness: the tweet was stored with all its child rows by a completed
\* add_tweet, and a later add_tweet of the same tweet with other counts has
\* updated it
C1_Witness ==
    /\ \A w \in Consumers : consumer[w].pc = "get"
    /\ \E w \in Consumers : consumer[w].status = "barfoo_again"
    /\ \E t \in db.tweets :
          /\ t.tweetid = StatusBarFoo.id
          /\ t.rtcount = StatusBarFooAgain.retweet_count
          /\ t.fvcount = StatusBarFooAgain.favorite_count
          /\ t.rtcount # StatusBarFoo.retweet_count
    /\ RowsOfTweet(db.hashtags, StatusBarFoo.id) = Len(StatusBarFoo.hashtags)
    /\ RowsOfTweet(db.tweetwords, StatusBarFoo.id) = Len(Words["barfoo"])
    /\ RowsOfTweet(db.media, StatusBarFoo.id) = Len(StatusBarFoo.media)
    /\ RowsOfTweet(db.geotags, StatusBarFoo.id) = 1

\* the lexicon rows a consumer's session sees
VisibleHashtagLexicon(w) == db.hashlex \cup session[w].tx.hashlex

VisibleTweetLexicon(w) == db.wordlex \cup session[w].tx.wordlex

\* C2: whoever interns a text, and however the consumers interleave, the
\* id the caller is left with is the id of the one lexicon row of that
\* text: after each TweetWord.__init__ and each Hashtag.__init__ the id put
\* into the row is that of the visible lexicon row of the text, and no text
\* has two committed rows.
C2_RaceSafeInterning ==
    /\ \A w \in Consumers :
        /\ (consumer[w].pc = "words" /\ consumer[w].idx > 1)
           => \E l \in VisibleTweetLexicon(w) :
                 /\ l.wordtext = Words[consumer[w].status][consumer[w].idx - 1]
                 /\ l.wordid = consumer[w].lexid
        /\ (consumer[w].pc = "hashtags" /\ consumer[w].idx > 1)
           => \E l \in VisibleHashtagLexicon(w) :
                 /\ l.hashtagtext =
                      StatusOf[consumer[w].status].hashtags[consumer[w].idx - 1].text
                 /\ l.hashtagid = consumer[w].lexid
    /\ \A l1, l2 \in db.wordlex : l1.wordtext = l2.wordtext => l1 = l2
    /\ \A l1, l2 \in db.hashlex : l1.hashtagtext = l2.hashtagtext => l1 = l2

\* C3: with one consumer, interning a text that has no lexicon row adds
\* exactly one row, for that text, and yields its id; interning a text that
\* has a row adds none and yields the id of that row; and the lexicon never
\* holds two rows of one text.
C3_SoloInternStep ==
    \A w \in Consumers :
      /\ ( /\ consumer[w].pc \in {"words", "word_insert"}
           /\ consumer'[w].pc = "words"
           /\ consumer'[w].idx = consumer[w].idx + 1 )
         => LET word   == Words[consumer[w].status][consumer[w].idx]
                before == {l \in VisibleTweetLexicon(w) : l.wordtext = word}
            IN  IF before = {}
                THEN \E l \in VisibleTweetLexicon(w)' :
                        /\ l \notin VisibleTweetLexicon(w)
                        /\ VisibleTweetLexicon(w)' = VisibleTweetLexicon(w) \cup {l}
                        /\ l.wordtext = word
                        /\ consumer'[w].lexid = l.wordid
                ELSE /\ VisibleTweetLexicon(w)' = VisibleTweetLexicon(w)
                     /\ \E l \in before : consumer'[w].lexid = l.wordid
      /\ ( /\ consumer[w].pc \in {"hashtags", "hashtag_insert"}
           /\ consumer'[w].pc = "hashtags"
           /\ consumer'[w].idx = consumer[w].idx + 1 )
         => LET text   == StatusOf[consumer[w].status].hashtags[consumer[w].idx].text
                before == {l \in VisibleHashtagLexicon(w) : l.hashtagtext = text}
            IN  IF before = {}
                THEN \E l \in VisibleHashtagLexicon(w)' :
                        /\ l \notin VisibleHashtagLexicon(w)
                        /\ VisibleHashtagLexicon(w)' = VisibleHashtagLexicon(w) \cup {l}
                        /\ l.hashtagtext = text
                        /\ consumer'[w].lexid = l.hashtagid
                ELSE /\ VisibleHashtagLexicon(w)' = VisibleHashtagLexicon(w)
                     /\ \E l \in before : consumer'[w].lexid = l.hashtagid

C3_OneRowPerText ==
    \A w \in Consumers :
      /\ Cardinality(VisibleTweetLexicon(w)) =
             Cardinality({l.wordtext : l \in VisibleTweetLexicon(w)})
      /\ Cardinality(VisibleHashtagLexicon(w)) =
             Cardinality({l.hashtagtext : l \in VisibleHashtagLexicon(w)})

\* C3: with a single consumer, interning a text that has no lexicon row adds
\* exactly one row and yields its id, interning a text that has one adds
\* none and yields that row's id, and no text ever has two rows.
C3_SoloInterning == [][C3_SoloInternStep]_vars /\ []C3_OneRowPerText

\* C3 witness: the lone consumer has interned the three words of a status,
\* the last of them a word it had interned before, and is left with the id
\* of that word's row
C3_Witness ==
    /\ consumer[1].pc = "words"
    /\ consumer[1].status = "barfoo"
    /\ consumer[1].idx = Len(Words["barfoo"]) + 1
    /\ Words["barfoo"][2] = Words["barfoo"][3]
    /\ Cardinality(VisibleTweetLexicon(1)) = 2
    /\ \E l \in session[1].tx.wordlex :
          l.wordtext = Words["barfoo"][3] /\ l.wordid = consumer[1].lexid

\* the sum of a counter over the consumers
RECURSIVE SumOver(_, _)
SumOver(field, ws) ==
    IF ws = {} THEN 0
    ELSE LET w == CHOOSE x \in ws : TRUE
         IN  consumer[w][field] + SumOver(field, ws \ {w})

\* The stream has delivered the same tweet twice and nothing else, both
\* statuses pass the language test, two consumers took one each, the
\* second while the first was still at work on its own, and both are done.
C4_SameTweetTwice ==
    /\ Len(received) = 2
    /\ Len(dequeued) = 2
    /\ producer.pc # "put"
    /\ StatusOf[dequeued[1].status].id = StatusOf[dequeued[2].status].id
    /\ StatusOf[dequeued[1].status].author.id = StatusOf[dequeued[2].status].author.id
    /\ LangPasses(dequeued[1].status, parmdata.langs)
    /\ LangPasses(dequeued[2].status, parmdata.langs)
    /\ dequeued[1].consumer # dequeued[2].consumer
    /\ dequeued[1].consumer \in dequeued[2].busy
    /\ consumer[dequeued[1].consumer].pc = "get"
    /\ consumer[dequeued[2].consumer].pc = "get"

\* C4 as stated: after two consumers have processed the same tweet
\* concurrently there is exactly one Tweet row of that id and the duplicate
\* counters have gone up by exactly 1.
C4_OneRowAndOneDupe ==
    C4_SameTweetTwice =>
        /\ Cardinality({t \in db.tweets :
               t.tweetid = StatusOf[dequeued[1].status].id}) = 1
        /\ SumOver("n_dupes", Consumers) = 1

\* C4 as amended: there is exactly one Tweet row of that id, and each of the
\* two statuses was counted once, as a duplicate or as processed, at most
\* one of them as a duplicate.
C4_OneRowAndAtMostOneDupe ==
    C4_SameTweetTwice =>
        /\ Cardinality({t \in db.tweets :
               t.tweetid = StatusOf[dequeued[1].status].id}) = 1
        /\ SumOver("n_dupes", Consumers) <= 1
        /\ SumOver("n_dupes", Consumers) + SumOver("n_tweets", Consumers) = 2

\* C4 witness: the two consumers raced and one of them lost
C4_Witness ==
    /\ C4_SameTweetTwice
    /\ dequeued[1].status # dequeued[2].status
    /\ SumOver("n_dupes", Consumers) = 1

\* tweet_consumer w counts its status as a duplicate and discards it
SuppressedDuplicate(w) ==
    /\ consumer[w].pc = "integrity_error"
    /\ consumer'[w].pc = "get"

\* C5: whenever a consumer counts a status as a suppressed duplicate and
\* discards it, a committed Tweet row of that status's tweet id exists: the
\* loser of a race for a User or Tweet insert goes on as in the update
\* branch.
C5_SuppressedDuplicateIsStored ==
    [][\A w \in Consumers :
          SuppressedDuplicate(w) =>
              \E t \in db'.tweets : t.tweetid = StatusOf[consumer[w].status].id]_vars

\* C6: no failure of the storage or of the network ends the run loop of a
\* consumer; it goes on to the next queue entry.
C6_RunLoopNeverEnds ==
    \A w \in Consumers : consumer[w].pc # "dead"

\* the statuses that consumers have taken off the queue, in that order
Taken == [i \in 1..Len(dequeued) |-> dequeued[i].status]

\* the statuses whose on_status has returned, in that order
Enqueued ==
    IF producer.pc = "put" THEN SubSeq(received, 1, Len(received) - 1)
    ELSE received

\* C7: the queue never holds more than its capacity; on_status waits
\* exactly while the queue is full; every status whose on_status has returned
\* is in the queue or has been taken off it, once.
C7_Backpressure ==
    /\ Len(queue) <= QueueSize
    /\ producer.pc = "put" => (ENABLED OnStatus <=> Len(queue) < QueueSize)
    /\ SeqToBag(Taken \o queue) = SeqToBag(Enqueued)

\* C7 witness: on_status waits with a status in hand at a full queue
C7_Witness ==
    /\ producer.pc = "put"
    /\ Len(queue) = QueueSize
    /\ ~ENABLED OnStatus

\* C8: with a single consumer the statuses leave the queue in the order in
\* which on_status put them in.
C8_Fifo ==
    Taken \o queue = Enqueued

\* C8 witness: the consumer has taken two different statuses
C8_Witness ==
    /\ Len(dequeued) >= 2
    /\ dequeued[1].status # dequeued[2].status

\* tweet_consumer w takes a status off the queue whose language does not
\* pass the test
DequeuesDisallowed(w) ==
    /\ consumer[w].pc = "get"
    /\ Len(dequeued') = Len(dequeued) + 1
    /\ dequeued'[Len(dequeued')].consumer = w
    /\ ~LangPasses(dequeued'[Len(dequeued')].status, parmdata.langs)

\* that step leaves the storage and the session of the consumer as they
\* were, raises none of its counters and leaves it ready for the next status
C9_DisallowedStep ==
    \A w \in Consumers :
        DequeuesDisallowed(w) =>
            /\ db' = db
            /\ seqs' = seqs
            /\ session' = session
            /\ consumer'[w].n_dupes <= consumer[w].n_dupes
            /\ consumer'[w].n_tweets <= consumer[w].n_tweets
            /\ consumer'[w].pc = "get"

\* every User and Tweet row stems from a status whose language passes
C9_RowsOfAllowedOnly ==
    /\ \A t \in db.tweets :
          \E k \in Statuses : /\ LangPasses(k, parmdata.langs)
                              /\ StatusOf[k].id = t.tweetid
    /\ \A u \in db.users :
          \E k \in Statuses : /\ LangPasses(k, parmdata.langs)
                              /\ StatusOf[k].author.id = u.userid

\* C9: dequeuing a status whose language does not pass the allow-list
\* leaves the storage unchanged and increments neither n_dupes nor n_tweets;
\* no row of the storage stems from such a status.
C9_DisallowedLanguageIgnored ==
    [][C9_DisallowedStep]_vars /\ []C9_RowsOfAllowedOnly

\* C9 witness: a consumer has taken the French status off the queue while
\* the storage held rows, and waits for the next
C9_Witness ==
    /\ dequeued # <<>>
    /\ ~LangPasses(dequeued[Len(dequeued)].status, parmdata.langs)
    /\ consumer[dequeued[Len(dequeued)].consumer].status = dequeued[Len(dequeued)].status
    /\ consumer[dequeued[Len(dequeued)].consumer].pc = "get"
    /\ db.tweets # {}

\* the rows of the hashtag lexicon whose text is the given one up to case
LexiconRowsFor(text) ==
    {l \in db.hashlex : Lower(l.hashtagtext) = Lower(text)}

\* C10: once add_tweet has stored the status with hashtags "Foo" and "foo",
\* one HashtagLexicon row, of text "foo", stands for both and the two
\* Hashtag rows of the tweet refer to it; no two rows of the lexicon have
\* the same text up to letter case.
C10_HashtagsInternedCaseInsensitively ==
    /\ \A a, b \in db.hashlex :
          Lower(a.hashtagtext) = Lower(b.hashtagtext) => a = b
    /\ (\E t \in db.tweets : t.tweetid = StatusBarFoo.id) =>
          /\ \E l \in db.hashlex : LexiconRowsFor(Tagfoo.text) = {l}
          /\ \A l \in LexiconRowsFor(Tagfoo.text) :
                /\ l.hashtagtext = Tagfoo.text
                /\ RowsOfTweet(db.hashtags, StatusBarFoo.id)
                     = (Hashtag(StatusBarFoo, l.hashtagid) :> 2)

\* nobody has called close() and the program has not exited
NoShutdown ==
    /\ producer.parent.close = "idle"
    /\ producer.pc # "terminated"

\* a step of the producer without a shutdown never ends run(), and a step
\* that leaves the stream without a status in hand leads back to connecting
C11_ErrorStep ==
    (NoShutdown /\ NoShutdown') =>
        /\ producer'.pc # "exited"
        /\ (producer.pc = "stream" /\ producer'.pc \notin {"stream", "put"})
              => producer'.pc = "connect"

\* while connecting the producer can connect, and on a connected stream
\* that has a status to deliver on_status is called
C11_CanResume ==
    NoShutdown =>
        /\ producer.pc \in {"connect", "stream", "put"}
        /\ producer.pc = "connect" => ENABLED Connect
        /\ (producer.pc = "stream" /\ Len(received) < stream_len)
              => ENABLED Receive

\* C11: while no shutdown has been requested every error of the stream
\* sends the producer back to connecting, from where it connects and
\* enqueues again, whatever the number of errors before; run() never ends
\* on its own.
C11_ProducerReconnects ==
    [][C11_ErrorStep]_vars /\ []C11_CanResume

\* C11 witness: two statuses are in the queue or beyond it and the listener
\* in use has counted one of them: the stream broke between the two, and
\* the producer connected and enqueued again
C11_Witness ==
    /\ NoShutdown
    /\ Len(received) = 2
    /\ producer.pc = "stream"
    /\ producer.n_count = 1

\* a step of close(), or a step of the producer after close() was called
C12_CloseStep ==
    /\ producer'.parent.close # "raised"
    /\ (producer.parent.close # "idle" /\ producer.pc # "terminated")
          => /\ ~(producer.pc = "connect" /\ producer'.pc = "stream")
             /\ producer'.pc \notin {"stream", "put"}

\* C12: close() returns, and from the call of close() on the producer opens
\* no stream and holds no open stream: its run loop has ended.
C12_CloseStopsProducer ==
    [][C12_CloseStep]_vars

\* C13 as stated: every status held in the queue has a language that passes
\* the allow-list.
C13_QueueHoldsAllowedOnly ==
    \A i \in DOMAIN queue : LangPasses(queue[i], parmdata.langs)

\* on_status puts the status it was called with on the queue, whatever its
\* language, and counts it
C13_OnStatusStep ==
    (producer.pc = "put" /\ producer'.pc = "stream") =>
        /\ queue' = Append(queue, received[Len(received)])
        /\ \/ producer'.n_count = producer.n_count + 1
           \/ producer'.n_count = 0 /\ producer'.last_time = now

\* a consumer at work on a status has found its language to pass
C13_PersistingAllowedOnly ==
    \A w \in Consumers :
        consumer[w].pc \notin {"get", "dead", "terminated", "unstarted"} =>
            LangPasses(consumer[w].status, parmdata.langs)

\* C13 as amended: on_status enqueues and counts every status it receives
\* without a language test; the test is the consumer's, after the dequeue,
\* and a consumer persists only statuses whose language passes.
C13_FilterAfterDequeue ==
    [][C13_OnStatusStep]_vars /\ []C13_PersistingAllowedOnly

\* C13 witness: a status in a language that does not pass waits in the
\* queue, counted by the listener
C13_Witness ==
    /\ \E i \in DOMAIN queue : ~LangPasses(queue[i], parmdata.langs)
    /\ producer.n_count >= 1

\* C14: when the fetch of a media attachment fails, the consumer keeps
\* running and keeps the pending Tweet row and its other child rows, which
\* the commit of add_tweet then stores.
C14_MediaFailureOmitsOnlyMedia ==
    [][\A w \in Consumers :
          (consumer[w].pc = "media" /\ consumer'[w].pc # "media") =>
              /\ consumer'[w].pc = "commit"
              /\ session'[w].new = session[w].new
              /\ \A t \in {"hashtags", "mentions", "urls", "geotags"} :
                    session'[w].tx[t] = session[w].tx[t]]_vars

\* the User rows of the author's id
UsersOf(users, author) == {u \in users : u.userid = author.id}

\* add_user of consumer w has inserted: there was no row of the id, and the
\* one row added holds every field of the author and the time of the write
UserInserted(w) ==
    LET author == StatusOf[consumer[w].status].author
    IN  /\ UsersOf(db.users, author) = {}
        /\ db'.users = db.users \cup
              {[userid |-> author.id, username |-> author.screen_name,
                name |-> author.name, location |-> author.location,
                description |-> author.description,
                numfollowers |-> author.followers_count,
                numfriends |-> author.friends_count,
                numtweets |-> author.statuses_count,
                createdat |-> author.created_at,
                timezone |-> author.time_zone,
                geoloc |-> author.geo_enabled,
                verified |-> author.verified,
                lastupdate |-> now]}

\* add_user of consumer w has updated: the row of the id holds the
\* author's profile fields and the time of the write, keeps its userid and
\* createdat, and its geoloc is kept or overwritten as said
UserOverwritten(w, geolocKept) ==
    LET author == StatusOf[consumer[w].status].author
    IN  \E old \in db.users, new \in db'.users :
          /\ UsersOf(db.users, author) = {old}
          /\ UsersOf(db'.users, author) = {new}
          /\ db'.users \ {new} = db.users \ {old}
          /\ new.name = author.name
          /\ new.username = author.screen_name
          /\ new.description = author.description
          /\ new.location = author.location
          /\ new.numfollowers = author.followers_count
          /\ new.numfriends = author.friends_count
          /\ new.numtweets = author.statuses_count
          /\ new.verified = author.verified
          /\ new.timezone = author.time_zone
          /\ new.lastupdate = now
          /\ new.userid = old.userid
          /\ new.createdat = old.createdat
          /\ new.geoloc = IF geolocKept THEN old.geoloc ELSE author.geo_enabled

\* a completed add_user writes the User table as said and nothing else
UpsertUserStep(geolocKept) ==
    \A w \in Consumers :
        (consumer[w].pc \in {"user_insert", "user_update"}
           /\ consumer'[w].pc = "add_tweet") =>
            /\ IF consumer[w].pc = "user_insert"
               THEN UserInserted(w)
               ELSE UserOverwritten(w, geolocKept)
            /\ \A t \in DOMAIN db \ {"users"} : db'[t] = db[t]

\* C15 as stated: add_user inserts a full row for an unknown id; for a known
\* id it overwrites name, handle, bio, location, the three counts, the
\* verified flag, the timezone and the time of the update, and leaves every
\* other column of the row, and every other row, as it was.
C15_UpsertUserListedFields ==
    [][UpsertUserStep(TRUE)]_vars

\* C15 as amended: the update also overwrites the geo-enabled flag; only
\* userid and createdat are left as they were.
C15_UpsertUserWithGeoloc ==
    [][UpsertUserStep(FALSE)]_vars

\* C15 witness: the row of a known user has been overwritten with the
\* profile of a later observation, geo-enabled flag included
C15_Witness ==
    /\ Len(dequeued) = 2
    /\ dequeued[1].status = "barfoo"
    /\ dequeued[2].status = "barfoo_again"
    /\ dequeued[1].consumer = dequeued[2].consumer
    /\ \E u \in db.users :
           /\ u.userid = AliceLater.id
           /\ u.username = AliceLater.screen_name
           /\ u.geoloc = AliceLater.geo_enabled
           /\ u.createdat = Alice.created_at

\* the child tables, each with a tweetid column
ChildTables == {"hashtags", "mentions", "urls", "geotags", "media", "tweetwords"}

\* C16: every committed child row (Hashtag, Mention, URLData, Geotag, Media,
\* TweetWord) has the tweetid of a committed Tweet row, whatever the
\* interleaving of the consumers and wherever add_tweet failed or rolled back.
C16_ChildrenHaveParent ==
    \A t \in ChildTables :
        \A r \in DOMAIN db[t] :
            \E tw \in db.tweets : tw.tweetid = r.tweetid

\* C16 witness: child rows of every kind are committed, and a consumer has
\* been lost to a failure in the middle of a status
C16_Witness ==
    /\ \A t \in ChildTables : db[t] # EmptyBag
    /\ \E w \in Consumers : consumer[w].pc = "dead"

\* C17: a consumer stops only between two items: the step that stops it
\* finds it waiting at queue.get(), never in the middle of a status.
C17_StopsBetweenItems ==
    [][\A w \in Consumers :
          (consumer[w].pc # "terminated" /\ consumer'[w].pc = "terminated")
              => consumer[w].pc = "get"]_vars

\* C18: as long as nobody shuts the pipeline down, a status in the queue has
\* a consumer left to take it: no failure of an item has stopped every
\* consumer, so the queue drains and the producer is not blocked for ever.
C18_QueueKeepsDraining ==
    (NoShutdown /\ queue # <<>>) =>
        \E w \in Consumers : consumer[w].pc \notin {"dead", "terminated", "unstarted"}

\* C19: the insert of a HashtagLexicon row never costs the consumer its
\* tweet: whether it wins or loses the race for the text, it goes on with
\* the hashtags of the status and holds the id of the text's one row.
C19_HashtagRaceKeepsTweet ==
    [][\A w \in Consumers :
          (consumer[w].pc = "hashtag_insert" /\ consumer'[w].pc # "hashtag_insert")
              => /\ consumer'[w].pc = "hashtags"
                 /\ \E t \in session'[w].new \cup session'[w].tx.tweets :
                       t.tweetid = StatusOf[consumer[w].status].id
                 /\ \E l \in VisibleHashtagLexicon(w)' :
                       consumer'[w].lexid = l.hashtagid]_vars

\* C20: every committed TweetWord row has the wordid of a committed
\* TweetLexicon row and every committed Hashtag row the hashtagid of a
\* committed HashtagLexicon row.
C20_LexiconReferencesResolve ==
    /\ \A r \in DOMAIN db.tweetwords :
          \E l \in db.wordlex : l.wordid = r.wordid
    /\ \A r \in DOMAIN db.hashtags :
          \E l \in db.hashlex : l.hashtagid = r.hashtagid

\* the tweet ids the stream knows
TweetIds == {StatusOf[k].id : k \in Statuses}

\* the committed rows of a child table that belong to a tweet, with their
\* numbers of copies
ChildRows(tables, t, tweetid) ==
    [r \in {x \in DOMAIN tables[t] : x.tweetid = tweetid} |-> tables[t][r]]

\* a step that changes the committed child rows of a tweet writes them for
\* the first time: with the Tweet row for the tables of the first commit,
\* after it for the TweetWord rows
C21_ChildrenWrittenOnceStep ==
    \A id \in TweetIds : \A t \in ChildTables :
        ChildRows(db', t, id) # ChildRows(db, t, id) =>
            /\ RowsOfTweet(db[t], id) = 0
            /\ (\E tw \in db.tweets : tw.tweetid = id) <=> t = "tweetwords"

\* no tweet has more child rows than one status has entities, nor more than
\* one Geotag row
C21_ChildrenOfOneCall ==
    \A id \in TweetIds :
        /\ RowsOfTweet(db.geotags, id) <= 1
        /\ \E k \in Statuses :
              /\ StatusOf[k].id = id
              /\ RowsOfTweet(db.hashtags, id) <= Len(StatusOf[k].hashtags)
              /\ RowsOfTweet(db.mentions, id) <= Len(StatusOf[k].user_mentions)
              /\ RowsOfTweet(db.urls, id) <= Len(StatusOf[k].urls)
              /\ RowsOfTweet(db.media, id) <= Len(StatusOf[k].media)
              /\ RowsOfTweet(db.tweetwords, id) <= Len(Words[k])

\* C21: the committed child rows of a tweet are written once, by the one
\* add_tweet call whose Tweet row was committed, however many workers
\* observe the tweet at the same time; a tweet has at most one Geotag row.
C21_ChildrenWrittenOnce ==
    [][C21_ChildrenWrittenOnceStep]_vars /\ []C21_ChildrenOfOneCall

\* C21 witness: two consumers have worked on the same tweet at the same
\* time, one has lost, and the tweet has its child rows
C21_Witness ==
    /\ Len(dequeued) = 2
    /\ StatusOf[dequeued[1].status].id = StatusBarFoo.id
    /\ StatusOf[dequeued[2].status].id = StatusBarFoo.id
    /\ dequeued[1].consumer \in dequeued[2].busy
    /\ \A w \in Consumers : consumer[w].pc = "get"
    /\ \E w \in Consumers : consumer[w].n_dupes = 1
    /\ RowsOfTweet(db.geotags, StatusBarFoo.id) = 1
    /\ RowsOfTweet(db.hashtags, StatusBarFoo.id) = Len(StatusBarFoo.hashtags)
    /\ RowsOfTweet(db.tweetwords, StatusBarFoo.id) = Len(Words["barfoo"])

\* the immutable columns of a Tweet row
TweetContent(t) ==
    [tweetid |-> t.tweetid, userid |-> t.userid, text |-> t.text,
     lang |-> t.lang, date |-> t.date, source |-> t.source]

\* C22: a committed Tweet row stays: after every step there is exactly one
\* Tweet row of its id, with the author id, text, language, creation time
\* and source it was inserted with.
C22_TweetContentIsImmutable ==
    [][\A old \in db.tweets :
          \E new \in db'.tweets :
              /\ TweetContent(new) = TweetContent(old)
              /\ \A t \in db'.tweets : t.tweetid = old.tweetid => t = new]_vars

\* C22 witness: a tweet stored from one observation has been updated from
\* another that names another source, and keeps the source of the first
C22_Witness ==
    \E t \in db.tweets :
        /\ t.tweetid = StatusBarFoo.id
        /\ t.rtcount = StatusBarFooAgain.retweet_count
        /\ t.source = StatusBarFoo.source
        /\ t.source # StatusBarFooAgain.source

\* consumer w ends an iteration of run() and calls status_update: after a
\* status it has dropped for its language, persisted, or counted a duplicate
CallsStatusUpdate(w) ==
    /\ consumer'[w].pc = "get"
    /\ \/ consumer[w].pc \in {"words", "tweet_update", "integrity_error"}
       \/ /\ consumer[w].pc = "get"
          /\ Len(dequeued') = Len(dequeued) + 1
          /\ dequeued'[Len(dequeued')].consumer = w

\* what a status_update of consumer w does to its window, which holds the
\* count run() has just made
C23_ConsumerWindow(w) ==
    IF now - consumer[w].last_time > parmdata.log_interval
    THEN /\ consumer'[w].n_tweets = 0
         /\ consumer'[w].n_dupes = 0
         /\ consumer'[w].last_time = now
    ELSE /\ consumer'[w].last_time = consumer[w].last_time
         /\ consumer'[w].n_tweets = consumer[w].n_tweets +
               (IF consumer[w].pc \in {"words", "tweet_update"} THEN 1 ELSE 0)
         /\ consumer'[w].n_dupes = consumer[w].n_dupes +
               (IF consumer[w].pc = "integrity_error" THEN 1 ELSE 0)

\* what the status_update at the end of on_status does to the window of the
\* listener
C23_ListenerWindow ==
    IF now - producer.last_time > parmdata.log_interval
    THEN /\ producer'.n_count = 0
         /\ producer'.last_time = now
    ELSE /\ producer'.last_time = producer.last_time
         /\ producer'.n_count = producer.n_count + 1

\* every step: a status_update resets or keeps its window as said, and the
\* counters of a consumer whose window has not been reset do not decrease
C23_Step ==
    /\ \A w \in Consumers :
          /\ CallsStatusUpdate(w) => C23_ConsumerWindow(w)
          /\ consumer'[w].last_time = consumer[w].last_time =>
                /\ consumer'[w].n_tweets >= consumer[w].n_tweets
                /\ consumer'[w].n_dupes >= consumer[w].n_dupes
    /\ (producer.pc = "put" /\ producer'.pc = "stream") => C23_ListenerWindow

\* C23: a status_update whose window is older than the log interval, and no
\* other, sets the counters to 0 and the start of the window to now;
\* between two such resets the counters do not decrease.
C23_RateWindow ==
    [][C23_Step]_vars

\* C23 witness: a consumer has reset its window after the clock moved on,
\* and the listener has counted a status in a window it did not reset
C23_Witness ==
    /\ \E w \in Consumers :
          /\ consumer[w].last_time > 0
          /\ consumer[w].n_tweets = 0
          /\ consumer[w].status # NoStatus
    /\ producer.n_count >= 1

\* C24: a creating add_tweet inserts at most one Hashtag row for a pair of
\* tweet id and hashtag lexicon id and at most one TweetWord row for a pair
\* of tweet id and word lexicon id, whatever the status repeats.
C24_NoDoubleOccurrence ==
    /\ \A r \in DOMAIN db.hashtags : db.hashtags[r] <= 1
    /\ \A r \in DOMAIN db.tweetwords : db.tweetwords[r] <= 1

\* C25: when add_tweet of the single-process variant has stored a novel
\* status, the store holds one Hashtag row for each of its hashtag
\* entities, one Mention row for each mention and one URLData row for each
\* url.
C25_VariantRowPerEntity ==
    [][(producer.pc = "geotag" /\ producer'.pc = "stream") =>
          LET st == StatusOf[producer.status]
          IN  /\ RowsOfTweet(db'.hashtags, st.id) = Len(st.hashtags)
              /\ RowsOfTweet(db'.mentions, st.id) = Len(st.user_mentions)
              /\ RowsOfTweet(db'.urls, st.id) = Len(st.urls)]_vars

\* C26: every stored tweet has a language code that is equal to an entry of
\* the configured list of languages, unless an entry of the list holds
\* 'ALL' (the wildcard).
C26_StoredLanguageIsListed ==
    \A t \in db.tweets :
        \/ \E k \in DOMAIN parmdata.langs : parmdata.langs[k] = t.lang
        \/ \E k \in DOMAIN parmdata.langs : Contains(Upper(parmdata.langs[k]), AllWord)

\* C27: when add_tweet returns from its first branch, the committed
\* TweetWord rows of the tweet are as many as the words of its text, and
\* each of them references the TweetLexicon row of one of these words; a
\* lost race for a TweetLexicon row in the loop over the words does not
\* change this.
C27_WordRowsStep(w) ==
    (consumer[w].pc = "words" /\ consumer'[w].pc = "get") =>
        LET st    == consumer[w].status
            id    == StatusOf[st].id
            words == Words[st]
        IN  /\ RowsOfTweet(db'.tweetwords, id) = Len(words)
            /\ \A r \in DOMAIN db'.tweetwords :
                  r.tweetid = id =>
                     \E l \in db'.wordlex, i \in DOMAIN words :
                        l.wordtext = words[i] /\ l.wordid = r.wordid

C27_WordRowsSurviveRace == [][\A w \in Consumers : C27_WordRowsStep(w)]_vars

=============================================================================
